---- MODULE Spec2Model ----
(***************************************************************************)
(* Model of the Maasai watermark tool: the App component's state and       *)
(* handlers (src/App.tsx), the live-preview effect with its 200ms          *)
(* debounce, the batch pass (executeBatchProcessing) and the paced         *)
(* downloads, over an abstraction of applyWatermarkToImage                 *)
(* (src/unnamed/part_000).                                                 *)
(*                                                                         *)
(* Conventions: a JS string is a sequence of one-character strings, the    *)
(* empty string and null are both <<>>; a null File is NoFile; a null id   *)
(* is NullId; time is counted in milliseconds and advances in steps of     *)
(* Quantum, a timer firing as soon as it is due.                           *)
(***************************************************************************)
EXTENDS Integers, Sequences, FiniteSets, TLC

VARIABLES
    images,             \* useState<ProcessedImage[]>
    logo,               \* useState<File | null>
    logoPreview,        \* useState<string | null>
    isProcessing,       \* useState(false)
    showConfirmModal,   \* useState(false)
    batchErrorResults,  \* useState<{total, success, failures} | null>
    settings,           \* useState<WatermarkSettings>
    activePreviewId,    \* useState<string | null>
    previewResult,      \* useState<string | null>
    previewError,       \* useState<string | null>
    nextId,             \* the ids crypto.randomUUID has handed out so far
    logoReads,          \* readFileAsDataURL calls of handleLogoSelected in flight
    previewTimers,      \* the setTimeout(generatePreview, 200) timers not yet fired
    previewCalls,       \* applyWatermarkToImage calls of generatePreview in flight
    passes,             \* executeBatchProcessing activations awaiting Promise.all
    exportTimers,       \* the setTimeout(download, index * 200) timers not yet fired
    exported,           \* downloads delivered for the latest completed pass
    processed,          \* the `processed` array of the latest completed pass
    quiet,              \* history: ms since the preview effect last ran (capped)
    burstCalls,         \* history: preview compositor calls since the effect last ran
    burstChanges,       \* history: effect runs less than 200ms after the one before
    events,             \* history: user events so far (bounds the exploration)
    lastEvent,          \* history: the handler the latest user event ran
    storage,            \* localStorage: the item 'maasai-watermark-settings' and its state
    pc,                 \* applyWatermarkToImage: where the call under study stands
    frame,              \* applyWatermarkToImage: its arguments and local constants
    canvas,             \* applyWatermarkToImage: the canvas element
    ctx,                \* applyWatermarkToImage: the drawing state of the 2d context
    draws,              \* applyWatermarkToImage: the drawImage calls made so far
    ret                 \* applyWatermarkToImage: how the returned promise settled

appVars == <<images, logo, logoPreview, isProcessing, showConfirmModal,
             batchErrorResults, settings, activePreviewId, previewResult,
             previewError, nextId, logoReads, previewTimers, previewCalls, passes,
             exportTimers, exported, processed, quiet, burstCalls, burstChanges>>

vars == <<images, logo, logoPreview, isProcessing, showConfirmModal,
          batchErrorResults, settings, activePreviewId, previewResult,
          previewError, nextId, logoReads, previewTimers, previewCalls, passes,
          exportTimers, exported, processed, quiet, burstCalls, burstChanges,
          events, lastEvent, storage, pc, frame, canvas, ctx, draws, ret>>

compositorVars == <<pc, frame, canvas, ctx, draws, ret>>

----------------------------------------------------------------------------
(* Bounds of the exploration *)

MaxEvents == 4
MaxImages == 3
MaxEventsExport == 4
MaxImagesExport == 3
MaxEventsLarge == 5
MaxImagesLarge == 11
MaxEventsFair == 4
MaxImagesFair == 2
MaxEventsNames == 4
MaxImagesNames == 2
MaxDraws == 60
MaxEventsSettings == 4
MaxEventsActive == 5
MaxImagesActive == 2

(* Program constants *)

DEBOUNCE_MS == 200
EXPORT_PACING_MS == 200
CONFIRM_THRESHOLD == 10
MAX_DIMENSION == 16384

Quantum == DEBOUNCE_MS \div 2

----------------------------------------------------------------------------
(* Values *)

NullId == 0
NullString == <<>>
NoFile == [name |-> <<>>, readable |-> FALSE, decodable |-> FALSE,
           width |-> 0, height |-> 0]
NoMessage == [kind |-> "none", name |-> <<>>]
NoReport == [total |-> 0, success |-> 0, failures |-> <<>>]

PhotoA == [name |-> <<"a", ".", "j", "p", "g">>, readable |-> TRUE,
           decodable |-> TRUE, width |-> 400, height |-> 200]
PhotoBad == [name |-> <<"b", ".", "p", "n", "g">>, readable |-> TRUE,
             decodable |-> FALSE, width |-> 0, height |-> 0]
LogoA == [name |-> <<"l", ".", "p", "n", "g">>, readable |-> TRUE,
          decodable |-> TRUE, width |-> 40, height |-> 20]
LogoBad == [name |-> <<"m", ".", "p", "n", "g">>, readable |-> TRUE,
            decodable |-> FALSE, width |-> 0, height |-> 0]

DefaultSettings ==
    [opacity |-> 80, scale |-> 20, position |-> "bottom-right", margin |-> 3,
     outputFormat |-> "image/jpeg", shadow |-> FALSE, brightness |-> 100,
     contrast |-> 100, saturation |-> 100]

RECURSIVE Repeat(_, _)
Repeat(x, n) == IF n = 0 THEN <<>> ELSE <<x>> \o Repeat(x, n - 1)

Min(a, b) == IF a < b THEN a ELSE b

----------------------------------------------------------------------------
(* JSON text, as a sequence of tokens: punctuation, one token per digit, one  *)
(* per string body and one per literal                                        *)

\* the keys of a WatermarkSettings object, in the order of their insertion
SettingsKeys == <<"opacity", "scale", "position", "margin", "outputFormat", "shadow",
                  "brightness", "contrast", "saturation">>

DigitChars == <<"0", "1", "2", "3", "4", "5", "6", "7", "8", "9">>

RECURSIVE Digits(_)
Digits(n) == IF n < 10 THEN <<DigitChars[n + 1]>>
             ELSE Digits(n \div 10) \o <<DigitChars[(n % 10) + 1]>>

DigitValue(c) == (CHOOSE i \in DOMAIN DigitChars : DigitChars[i] = c) - 1

RECURSIVE NumberOf(_)
NumberOf(text) ==
    IF Len(text) = 1 THEN DigitValue(text[1])
    ELSE 10 * NumberOf(SubSeq(text, 1, Len(text) - 1)) + DigitValue(text[Len(text)])

\* mutant: a number is written with its last two digits
ValueTextTwoDigits(key, v) ==
    IF key = "shadow" THEN <<IF v THEN "true" ELSE "false">>
    ELSE IF key \in {"position", "outputFormat"} THEN <<"\"", v, "\"">>
    ELSE Digits(v % 100)

\* the JSON text of a value of a settings field
ValueText(key, v) ==
    IF key = "shadow" THEN <<IF v THEN "true" ELSE "false">>
    ELSE IF key \in {"position", "outputFormat"} THEN <<"\"", v, "\"">>
    ELSE Digits(v)

RECURSIVE MembersText(_, _)
MembersText(st, k) ==
    IF k > Len(SettingsKeys) THEN <<>>
    ELSE (IF k > 1 THEN <<",">> ELSE <<>>)
         \o <<"\"", SettingsKeys[k], "\"", ":">> \o ValueText(SettingsKeys[k], st[SettingsKeys[k]])
         \o MembersText(st, k + 1)

\* JSON.stringify(settings)
JSONStringify(st) == <<"{">> \o MembersText(st, 1) \o <<"}">>

\* the members of an object text, split at its commas
RECURSIVE SplitMembers(_)
SplitMembers(text) ==
    IF text = <<>> THEN <<>>
    ELSE IF \E i \in DOMAIN text : text[i] = ","
    THEN LET i == CHOOSE i \in DOMAIN text :
                     text[i] = "," /\ \A j \in 1..(i - 1) : text[j] # ","
         IN <<SubSeq(text, 1, i - 1)>> \o SplitMembers(SubSeq(text, i + 1, Len(text)))
    ELSE <<text>>

IsValueText(text) ==
    \/ text \in {<<"true">>, <<"false">>}
    \/ Len(text) = 3 /\ text[1] = "\"" /\ text[3] = "\""
    \/ Len(text) > 0 /\ \A i \in DOMAIN text : \E d \in DOMAIN DigitChars : DigitChars[d] = text[i]

ValueOf(text) ==
    IF text = <<"true">> THEN TRUE
    ELSE IF text = <<"false">> THEN FALSE
    ELSE IF text[1] = "\"" THEN text[2]
    ELSE NumberOf(text)

IsMemberText(m) ==
    /\ Len(m) > 4
    /\ m[1] = "\"" /\ m[3] = "\"" /\ m[4] = ":"
    /\ IsValueText(SubSeq(m, 5, Len(m)))

\* JSON.parse(text): the parsed object, or a SyntaxError
JSONParse(text) ==
    IF Len(text) < 2 \/ text[1] # "{" \/ text[Len(text)] # "}"
    THEN [ok |-> FALSE, value |-> <<>>]
    ELSE LET members == SplitMembers(SubSeq(text, 2, Len(text) - 1))
         IN IF \E k \in DOMAIN members : ~IsMemberText(members[k])
            THEN [ok |-> FALSE, value |-> <<>>]
            ELSE [ok |-> TRUE,
                  value |-> [key \in {members[k][2] : k \in DOMAIN members} |->
                      LET k == CHOOSE k \in DOMAIN members :
                                  /\ members[k][2] = key
                                  /\ \A j \in DOMAIN members :
                                        members[j][2] = key => j <= k
                      IN ValueOf(SubSeq(members[k], 5, Len(members[k])))]]

----------------------------------------------------------------------------
(* localStorage: the stored item (null when there is none), whether access to *)
(* the storage throws, and whether writing to it throws (quota)               *)

NoStorage == [item |-> NullString, denied |-> FALSE, full |-> FALSE]

\* lines 19-39: the initializer of the settings state
LoadSettings(sto) ==
    IF sto.denied THEN DefaultSettings
    ELSE IF sto.item = NullString THEN DefaultSettings
    ELSE IF JSONParse(sto.item).ok THEN JSONParse(sto.item).value
    ELSE DefaultSettings

----------------------------------------------------------------------------
(* JS numbers: n/d in lowest terms with d > 0; Infinity, -Infinity and NaN are *)
(* 1/0, -1/0 and 0/0. The arithmetic is exact: the rounding of IEEE doubles   *)
(* is left out.                                                               *)

Abs(i) == IF i < 0 THEN -i ELSE i
Sign(i) == IF i < 0 THEN -1 ELSE IF i > 0 THEN 1 ELSE 0

RECURSIVE GCD(_, _)
GCD(a, b) == IF b = 0 THEN a ELSE GCD(b, a % b)

Norm(n, d) ==
    IF d = 0 THEN [n |-> Sign(n), d |-> 0]
    ELSE LET g == GCD(Abs(n), Abs(d))
         IN [n |-> Sign(d) * (n \div g), d |-> Abs(d) \div g]

Num(i) == [n |-> i, d |-> 1]
Ratio(n, d) == Norm(n, d)
NaN == [n |-> 0, d |-> 0]
Infinity == [n |-> 1, d |-> 0]

Mul(a, b) == Norm(a.n * b.n, a.d * b.d)
\* a / b; a positive number over 0 is Infinity, 0 / 0 is NaN
Div(a, b) == Norm(a.n * b.d * (IF b.n < 0 THEN -1 ELSE 1), a.d * Abs(b.n))
Add(a, b) ==
    IF a.d = 0 /\ b.d = 0
    THEN (IF a.n = b.n THEN a ELSE NaN)
    ELSE Norm(a.n * b.d + b.n * a.d, a.d * b.d)
Neg(a) == [n |-> -a.n, d |-> a.d]
Sub(a, b) == Add(a, Neg(b))
\* a < b; false when either is NaN
Less(a, b) ==
    IF a = NaN \/ b = NaN THEN FALSE
    ELSE IF a.d = 0 /\ b.d = 0 THEN a.n < b.n
    ELSE a.n * b.d < b.n * a.d
Max(a, b) == IF a < b THEN b ELSE a

----------------------------------------------------------------------------
(* src/unnamed/part_000: what a call of applyWatermarkToImage can settle to *)

Resolved(url) == [ok |-> TRUE, url |-> url, error |-> NoMessage]
Rejected(kind, name) ==
    [ok |-> FALSE, url |-> NullString, error |-> [kind |-> kind, name |-> name]]

\* URL.createObjectURL(blob): named after what the blob was made from
BlobUrl(imageFile, logoFile, st) == <<"blob:", imageFile.name, logoFile.name, st>>

\* reader.onload resolves with the data URL of the file
DataUrl(file) == <<"data:", file.name>>

\* Promise.all of the two reads: the first rejection wins, either can be first
ReadFailures(imageFile, logoFile) ==
    (IF imageFile.readable THEN {} ELSE {Rejected("ReadSource", imageFile.name)})
    \cup (IF logoFile.readable THEN {} ELSE {Rejected("ReadLogo", logoFile.name)})

\* Promise.all of the two loadImage calls
LoadFailures(imageFile, logoFile) ==
    (IF imageFile.decodable THEN {} ELSE {Rejected("Decode", imageFile.name)})
    \cup (IF logoFile.decodable THEN {} ELSE {Rejected("Decode", logoFile.name)})

\* the set of settlements of applyWatermarkToImage(imageFile, logoFile, settings);
\* canvas.getContext and canvas.toBlob can fail in the host for any input
applyWatermarkToImage(imageFile, logoFile, st) ==
    IF ReadFailures(imageFile, logoFile) # {} THEN ReadFailures(imageFile, logoFile)
    ELSE IF LoadFailures(imageFile, logoFile) # {} THEN LoadFailures(imageFile, logoFile)
    ELSE IF imageFile.width > MAX_DIMENSION \/ imageFile.height > MAX_DIMENSION
        THEN {Rejected("ImageTooLarge", imageFile.name)}
    ELSE IF imageFile.width = 0 \/ imageFile.height = 0
        THEN {Rejected("InvalidDimensions", imageFile.name)}
    ELSE {Resolved(BlobUrl(imageFile, logoFile, st)),
          Rejected("Encode", imageFile.name)}

----------------------------------------------------------------------------
(* src/unnamed/part_000 lines 42-148: one call of applyWatermarkToImage, step  *)
(* by step from the two decoded images on; img and logo are the files with    *)
(* the width and height they decode to                                        *)

Zero == Num(0)
NoCanvas == [created |-> FALSE, width |-> 0, height |-> 0]
NoReturn == [ok |-> FALSE, url |-> NullString, error |-> NoMessage]

\* the drawing state of a context that getContext('2d') has just returned
\* (the colour 'transparent' reads back as transparent black)
InitialContext ==
    [filter |-> "none", globalAlpha |-> Num(1), shadowColor |-> "transparent",
     shadowBlur |-> Zero, shadowOffsetX |-> Zero, shadowOffsetY |-> Zero]

NoFrame ==
    [img |-> NoFile, logo |-> NoFile, settings |-> DefaultSettings,
     logoWidth |-> Zero, aspectRatio |-> Zero, logoHeight |-> Zero,
     marginX |-> Zero, marginY |-> Zero, x |-> Zero, y |-> Zero]

\* the values the template string of line 45 is filled with
TooLargeMessage(img) ==
    [name |-> img.name, width |-> img.width, height |-> img.height,
     max |-> MAX_DIMENSION]

\* ctx.drawImage(image, x, y, w, h) under the drawing state of the moment
DrawImage(layer, x, y, w, h, state) ==
    [layer |-> layer, x |-> x, y |-> y, w |-> w, h |-> h, filter |-> state.filter,
     globalAlpha |-> state.globalAlpha, shadowColor |-> state.shadowColor,
     shadowBlur |-> state.shadowBlur, shadowOffsetX |-> state.shadowOffsetX,
     shadowOffsetY |-> state.shadowOffsetY]

\* lines 62-64
EnhancementFilter(st) ==
    IF st.brightness # 100 \/ st.contrast # 100 \/ st.saturation # 100
    THEN <<"brightness", st.brightness, "contrast", st.contrast,
           "saturate", st.saturation>>
    ELSE "none"

\* lines 80-91
ConfigureShadow(state, img, st) ==
    IF st.shadow
    THEN LET shadowBase == Num(Max(img.width, img.height))
         IN [state EXCEPT !.shadowColor = "rgba(0, 0, 0, 0.6)",
                          !.shadowBlur = Mul(shadowBase, Ratio(1, 100)),
                          !.shadowOffsetX = Mul(shadowBase, Ratio(3, 1000)),
                          !.shadowOffsetY = Mul(shadowBase, Ratio(3, 1000))]
    ELSE [state EXCEPT !.shadowColor = "transparent", !.shadowBlur = Zero,
                       !.shadowOffsetX = Zero, !.shadowOffsetY = Zero]

\* mutant: the width of the logo is taken from the height of the photo
LogoWidthOfHeight(img, st) == Div(Mul(Num(img.height), Num(st.scale)), Num(100))

\* line 73
LogoWidth(img, st) == Div(Mul(Num(img.width), Num(st.scale)), Num(100))

\* line 74
AspectRatio(logoImage) == Div(Num(logoImage.height), Num(logoImage.width))

\* lines 107-128: the switch on settings.position
Placement(position, width, height, logoWidth, logoHeight, marginX, marginY) ==
    CASE position = "top-left" -> <<marginX, marginY>>
      [] position = "top-right" -> <<Sub(Sub(width, logoWidth), marginX), marginY>>
      [] position = "bottom-left" -> <<marginX, Sub(Sub(height, logoHeight), marginY)>>
      [] position = "bottom-right" ->
            <<Sub(Sub(width, logoWidth), marginX), Sub(Sub(height, logoHeight), marginY)>>
      [] position = "center" ->
            <<Div(Sub(width, logoWidth), Num(2)), Div(Sub(height, logoHeight), Num(2))>>
      [] OTHER -> <<Zero, Zero>>

\* mutant: the gap between tiles is the width of the logo
TileGapTight(logoWidth) == logoWidth

\* line 97
TileGap(logoWidth) == Mul(logoWidth, Ratio(3, 2))

\* mutant: the zero check comes first
DimensionErrorZeroFirst(img) ==
    IF img.width = 0 \/ img.height = 0 THEN "InvalidDimensions"
    ELSE IF img.width > MAX_DIMENSION \/ img.height > MAX_DIMENSION
    THEN "ImageTooLarge"
    ELSE "none"

\* lines 44-50: the error the two dimension checks throw, in their order
DimensionError(img) ==
    IF img.width > MAX_DIMENSION \/ img.height > MAX_DIMENSION THEN "ImageTooLarge"
    ELSE IF img.width = 0 \/ img.height = 0 THEN "InvalidDimensions"
    ELSE "none"

restOfApp == <<appVars, events, lastEvent, storage>>

\* the call is made with two decoded images and a settings record
Compose(img, logoImage, st) ==
    /\ pc = "idle"
    /\ pc' = "validate"
    /\ frame' = [NoFrame EXCEPT !.img = img, !.logo = logoImage, !.settings = st]
    /\ canvas' = NoCanvas
    /\ ctx' = InitialContext
    /\ draws' = <<>>
    /\ ret' = NoReturn
    /\ UNCHANGED restOfApp

\* lines 42-59: the dimension checks, then the canvas and its context
ValidateDimensions ==
    /\ pc = "validate"
    /\ LET img == frame.img
       IN IF DimensionError(img) = "ImageTooLarge"
          THEN /\ ret' = Rejected("ImageTooLarge", TooLargeMessage(img))
               /\ pc' = "thrown"
               /\ UNCHANGED canvas
          ELSE IF DimensionError(img) = "InvalidDimensions"
          THEN /\ ret' = Rejected("InvalidDimensions", img.name)
               /\ pc' = "thrown"
               /\ UNCHANGED canvas
          ELSE \/ /\ ret' = Rejected("NoContext", <<>>)
                  /\ pc' = "thrown"
                  /\ canvas' = [NoCanvas EXCEPT !.created = TRUE]
               \/ /\ canvas' = [created |-> TRUE, width |-> img.width,
                                 height |-> img.height]
                  /\ pc' = "source"
                  /\ UNCHANGED ret
    /\ UNCHANGED <<frame, ctx, draws, restOfApp>>

\* lines 61-70: the photo is drawn under the enhancement filter, which is then reset
DrawSource ==
    /\ pc = "source"
    /\ LET filtered == IF EnhancementFilter(frame.settings) # "none"
                       THEN [ctx EXCEPT !.filter = EnhancementFilter(frame.settings)]
                       ELSE ctx
       IN /\ draws' = Append(draws,
                DrawImage("source", Zero, Zero, Num(frame.img.width),
                          Num(frame.img.height), filtered))
          /\ ctx' = [filtered EXCEPT !.filter = "none"]
    /\ pc' = "configure"
    /\ UNCHANGED <<frame, canvas, ret, restOfApp>>

\* lines 72-94: the size of the logo, its alpha and shadow, the margins
ConfigureLogo ==
    /\ pc = "configure"
    /\ LET st == frame.settings
           logoWidth == LogoWidth(frame.img, st)
           aspectRatio == AspectRatio(frame.logo)
       IN /\ frame' = [frame EXCEPT
                 !.logoWidth = logoWidth,
                 !.aspectRatio = aspectRatio,
                 !.logoHeight = Mul(logoWidth, aspectRatio),
                 !.marginX = Div(Mul(Num(frame.img.width), Num(st.margin)), Num(100)),
                 !.marginY = Div(Mul(Num(frame.img.height), Num(st.margin)), Num(100))]
          /\ ctx' = ConfigureShadow(
                       [ctx EXCEPT !.globalAlpha = Div(Num(st.opacity), Num(100))],
                       frame.img, st)
          /\ pc' = IF st.position = "tiled" THEN "tileX" ELSE "place"
    /\ UNCHANGED <<canvas, draws, ret, restOfApp>>

\* line 98: the test of the outer loop, and the start of the inner one
TileColumn ==
    /\ pc = "tileX"
    /\ IF Less(frame.x, Num(frame.img.width))
       THEN pc' = "tileY" /\ frame' = [frame EXCEPT !.y = Zero]
       ELSE pc' = "reset" /\ UNCHANGED frame
    /\ UNCHANGED <<canvas, ctx, draws, ret, restOfApp>>

\* lines 99-101: the test of the inner loop; a tile is drawn and y advances, or
\* the loop is left and x advances
TileRow ==
    /\ pc = "tileY"
    /\ LET gap == TileGap(frame.logoWidth)
       IN IF Less(frame.y, Num(frame.img.height))
          THEN /\ Len(draws) < MaxDraws
               /\ draws' = Append(draws,
                     DrawImage("logo", frame.x, frame.y, frame.logoWidth,
                               frame.logoHeight, ctx))
               /\ frame' = [frame EXCEPT !.y = Add(frame.y, Mul(gap, frame.aspectRatio))]
               /\ UNCHANGED pc
          ELSE /\ frame' = [frame EXCEPT !.x = Add(frame.x, gap)]
               /\ pc' = "tileX"
               /\ UNCHANGED draws
    /\ UNCHANGED <<canvas, ctx, ret, restOfApp>>

\* lines 104-129: the one draw of the other positions
PlaceLogo ==
    /\ pc = "place"
    /\ LET at == Placement(frame.settings.position, Num(canvas.width),
                           Num(canvas.height), frame.logoWidth, frame.logoHeight,
                           frame.marginX, frame.marginY)
       IN /\ frame' = [frame EXCEPT !.x = at[1], !.y = at[2]]
          /\ draws' = Append(draws,
                DrawImage("logo", at[1], at[2], frame.logoWidth, frame.logoHeight, ctx))
    /\ pc' = "reset"
    /\ UNCHANGED <<canvas, ctx, ret, restOfApp>>

\* mutant: the alpha of the logo is left on
ResetStylesKeepsAlpha(state) ==
    [state EXCEPT !.shadowColor = "transparent", !.shadowBlur = Zero,
                  !.shadowOffsetX = Zero, !.shadowOffsetY = Zero]

\* lines 133-137
ResetStyles(state) ==
    [state EXCEPT !.globalAlpha = Num(1), !.shadowColor = "transparent",
                  !.shadowBlur = Zero, !.shadowOffsetX = Zero, !.shadowOffsetY = Zero]

ResetContext ==
    /\ pc = "reset"
    /\ ctx' = ResetStyles(ctx)
    /\ pc' = "encode"
    /\ UNCHANGED <<frame, canvas, draws, ret, restOfApp>>

\* lines 140-148: canvas.toBlob hands over a blob, or null
Encode ==
    /\ pc = "encode"
    /\ \/ ret' = Resolved(BlobUrl(frame.img, frame.logo, frame.settings))
       \/ ret' = Rejected("Encode", frame.img.name)
    /\ pc' = "returned"
    /\ UNCHANGED <<frame, canvas, ctx, draws, restOfApp>>

\* the caller has taken the settlement; the canvas is garbage
Settle ==
    /\ pc \in {"returned", "thrown"}
    /\ pc' = "idle"
    /\ frame' = NoFrame
    /\ canvas' = NoCanvas
    /\ ctx' = InitialContext
    /\ draws' = <<>>
    /\ ret' = NoReturn
    /\ UNCHANGED restOfApp

----------------------------------------------------------------------------
(* src/App.tsx: helpers of the handlers *)

Ids(imgs) == {imgs[k].id : k \in DOMAIN imgs}

\* files.map(file => ({id: crypto.randomUUID(), originalFile: file, previewUrl: '', status: 'pending'}))
NewImages(files, firstId) ==
    [k \in DOMAIN files |->
        [id |-> firstId + k - 1, originalFile |-> files[k],
         previewUrl |-> NullString, status |-> "pending",
         errorMessage |-> NoMessage]]

\* images.find(img => img.id === activePreviewId): its index, 0 when there is none
FindIndex(imgs, id) ==
    IF \E k \in DOMAIN imgs : imgs[k].id = id
    THEN CHOOSE k \in DOMAIN imgs :
            imgs[k].id = id /\ \A j \in DOMAIN imgs : imgs[j].id = id => k <= j
    ELSE 0

\* prev.filter(img => img.id !== id)
FilterOut(imgs, id) == SelectSeq(imgs, LAMBDA img : img.id # id)

\* mutant: the guard forgets the logo
NotRunnableIgnoresLogo(lg, imgs) == Len(imgs) = 0

\* if (!logo || images.length === 0) return;   (lines 115 and 180)
NotRunnable(lg, imgs) == lg = NoFile \/ Len(imgs) = 0

\* mutant: the prompt is asked for from 10 items on
NeedsConfirmationFromThreshold(imgs) == Len(imgs) >= CONFIRM_THRESHOLD

\* images.length > 10   (line 182)
NeedsConfirmation(imgs) == Len(imgs) > CONFIRM_THRESHOLD

\* mutant: the button stays enabled during a pass
ProcessButtonEnabledInPass == logo = NoFile \/ Len(images) = 0

\* disabled={!logo || images.length === 0 || isProcessing}   (line 340)
ProcessButtonDisabled == logo = NoFile \/ Len(images) = 0 \/ isProcessing

\* mutant: the catch branch records the message and forgets the status
ProcessedItemKeepsStatus(img, outcome) ==
    IF outcome.ok
    THEN [img EXCEPT !.previewUrl = outcome.url, !.status = "done",
                     !.errorMessage = NoMessage]
    ELSE [img EXCEPT !.errorMessage = outcome.error]

\* the try/catch around one item's compositor call   (lines 123-129)
ProcessedItem(img, outcome) ==
    IF outcome.ok
    THEN [img EXCEPT !.previewUrl = outcome.url, !.status = "done",
                     !.errorMessage = NoMessage]
    ELSE [img EXCEPT !.status = "error", !.errorMessage = outcome.error]

\* mutant: no catch in the mapped function, a failed item rejects its promise
ItemPromiseNoCatch(img, outcome) ==
    [fulfilled |-> outcome.ok, value |-> ProcessedItem(img, outcome)]

\* the promise of one mapped item: the catch makes it fulfil in both cases
ItemPromise(img, outcome) ==
    [fulfilled |-> TRUE, value |-> ProcessedItem(img, outcome)]

\* the arrays of item promises the compositor's settlements can produce, from item k on
RECURSIVE MappedPromises(_, _, _, _)
MappedPromises(imgs, lg, st, k) ==
    IF k > Len(imgs) THEN {<<>>}
    ELSE {<<ItemPromise(imgs[k], outcome)>> \o rest :
             outcome \in applyWatermarkToImage(imgs[k].originalFile, lg, st),
             rest \in MappedPromises(imgs, lg, st, k + 1)}

\* await Promise.all(...) resumes once every promise has fulfilled (a rejected one
\* would reject executeBatchProcessing, and lines 132-175 would not run)
AwaitPromiseAll(promises) == \A k \in DOMAIN promises : promises[k].fulfilled

\* processed.filter(img => img.status === 'error').map(...)   (lines 136-142)
Failures(proc) ==
    LET failed == SelectSeq(proc, LAMBDA img : img.status = "error")
    IN [k \in DOMAIN failed |->
           [id |-> failed[k].id, name |-> failed[k].originalFile.name,
            error |-> IF failed[k].errorMessage = NoMessage
                      THEN [kind |-> "Unknown Error", name |-> <<>>]
                      ELSE failed[k].errorMessage]]

\* mutant: the report counts every item as a success
ReportCountsAll(proc) ==
    [total |-> Len(proc), success |-> Len(proc), failures |-> Failures(proc)]

\* the report of lines 144-152, when there are failures
Report(proc) ==
    [total |-> Len(proc), success |-> Len(proc) - Len(Failures(proc)),
     failures |-> Failures(proc)]

\* name.lastIndexOf('.'), 0-based, -1 when there is none
LastIndexOf(name, ch) ==
    IF \E i \in DOMAIN name : name[i] = ch
    THEN (CHOOSE i \in DOMAIN name :
            name[i] = ch /\ \A j \in DOMAIN name : name[j] = ch => j <= i) - 1
    ELSE -1

\* mutant: the name is cut at its first '.'
StripExtensionAtFirstDot(name) ==
    LET dots == {i \in DOMAIN name : name[i] = "."}
        cut == IF dots = {} THEN -1
               ELSE (CHOOSE i \in dots : \A j \in dots : i <= j) - 1
        head == SubSeq(name, 1, IF cut < 0 THEN 0 ELSE cut)
    IN IF head = <<>> THEN name ELSE head

\* name.substring(0, name.lastIndexOf('.')) || name   (line 167)
StripExtension(name) ==
    LET cut == LastIndexOf(name, ".")
        head == SubSeq(name, 1, IF cut < 0 THEN 0 ELSE cut)
    IN IF head = <<>> THEN name ELSE head

\* lines 162-164
Extension(format) ==
    IF format = "image/png" THEN <<"p", "n", "g">>
    ELSE IF format = "image/webp" THEN <<"w", "e", "b", "p">>
    ELSE <<"j", "p", "g">>

\* `watermarked-${originalName}.${ext}`   (line 168)
DownloadName(name, format) ==
    <<"watermarked-">> \o StripExtension(name) \o <<".">> \o Extension(format)

\* mutant: every download is scheduled after the same delay
ExportDelayFixed(index) == EXPORT_PACING_MS

\* the delay of the download of processed[index]   (line 173)
ExportDelay(index) == index * EXPORT_PACING_MS

\* img.status === 'done' && img.previewUrl   (line 156)
IsExported(img) == img.status = "done" /\ img.previewUrl # NullString

\* processed.forEach((img, index) => { if (...) setTimeout(..., index * 200) })
RECURSIVE ScheduleDownloads(_, _, _)
ScheduleDownloads(proc, st, k) ==
    IF k > Len(proc) THEN <<>>
    ELSE (IF IsExported(proc[k])
          THEN <<[rem |-> ExportDelay(k - 1), index |-> k - 1, img |-> proc[k],
                  format |-> st.outputFormat, current |-> TRUE]>>
          ELSE <<>>) \o ScheduleDownloads(proc, st, k + 1)

\* mutant: the effect returns no cleanup, the previous timer stays armed
EffectCleanupMissing(timers) == timers

\* return () => clearTimeout(timer): the cleanup of the previous effect run
EffectCleanup(timers) == <<>>

RemoveAt(seq, i) == SubSeq(seq, 1, i - 1) \o SubSeq(seq, i + 1, Len(seq))

----------------------------------------------------------------------------
(* src/App.tsx lines 83-111: the live-preview effect, run after a render    *)
(* in which settings, activePreviewId, logo or images changed; `cleared`   *)
(* says that the handler itself reset the preview in the same render       *)

PreviewEffect(imgs, lg, st, act, cleared) ==
    LET clears == act = NullId \/ lg = NoFile
        k == FindIndex(imgs, act)
        kept == EffectCleanup(previewTimers)
    IN /\ previewTimers' =
            IF ~clears /\ k # 0
            THEN Append(kept, [rem |-> DEBOUNCE_MS, imageFile |-> imgs[k].originalFile,
                               logo |-> lg, settings |-> st])
            ELSE kept
       /\ previewCalls' =
            [i \in DOMAIN previewCalls |-> [previewCalls[i] EXCEPT !.stale = TRUE]]
       /\ previewResult' = IF cleared \/ clears THEN NullString ELSE previewResult
       /\ previewError' = IF cleared \/ clears THEN NoMessage ELSE previewError
       /\ quiet' = 0
       /\ burstCalls' = 0
       /\ burstChanges' = IF quiet < DEBOUNCE_MS THEN burstChanges + 1 ELSE 1

previewVars == <<previewResult, previewError, previewTimers, previewCalls,
                 quiet, burstCalls, burstChanges>>
batchVars == <<isProcessing, showConfirmModal, batchErrorResults, passes>>
exportVars == <<exportTimers, exported, processed>>
logoVars == <<logo, logoPreview, logoReads>>

----------------------------------------------------------------------------
\* the state of a session that starts over the storage `sto`
SessionStarts(sto) ==
    /\ storage = sto
    /\ settings = LoadSettings(sto)
    /\ images = <<>>
    /\ logo = NoFile
    /\ logoPreview = NullString
    /\ isProcessing = FALSE
    /\ showConfirmModal = FALSE
    /\ batchErrorResults = NoReport
    /\ activePreviewId = NullId
    /\ previewResult = NullString
    /\ previewError = NoMessage
    /\ nextId = 1
    /\ logoReads = <<>>
    /\ previewTimers = <<>>
    /\ previewCalls = <<>>
    /\ passes = <<>>
    /\ exportTimers = <<>>
    /\ exported = <<>>
    /\ processed = <<>>
    /\ quiet = 0
    /\ burstCalls = 0
    /\ burstChanges = 0
    /\ events = 0
    /\ lastEvent = "none"
    /\ pc = "idle"
    /\ frame = NoFrame
    /\ canvas = NoCanvas
    /\ ctx = InitialContext
    /\ draws = <<>>
    /\ ret = NoReturn

\* a first session: nothing is stored
Init == SessionStarts(NoStorage)

----------------------------------------------------------------------------
(* User events *)

\* lines 56-70
handleImagesSelected(files) ==
    LET newImages == NewImages(files, nextId)
        act == IF activePreviewId = NullId /\ Len(newImages) > 0
               THEN newImages[1].id ELSE activePreviewId
    IN /\ Len(files) > 0
       /\ images' = images \o newImages
       /\ nextId' = nextId + Len(files)
       /\ activePreviewId' = act
       /\ PreviewEffect(images \o newImages, logo, settings, act, FALSE)
       /\ UNCHANGED <<logoVars, batchVars, exportVars, settings>>

\* lines 73-80 up to the await; the uploader is rendered while logoPreview is null
handleLogoSelected(file) ==
    /\ logoPreview = NullString
    /\ logo' = file
    /\ logoReads' = Append(logoReads, file)
    /\ PreviewEffect(images, file, settings, activePreviewId, FALSE)
    /\ UNCHANGED <<images, nextId, activePreviewId, logoPreview, batchVars,
                   exportVars, settings>>

\* lines 77-78: the read settles; a rejection leaves handleLogoSelected rejected
LogoReadSettles(i) ==
    /\ i \in DOMAIN logoReads
    /\ logoPreview' = IF logoReads[i].readable THEN DataUrl(logoReads[i])
                      ELSE logoPreview
    /\ logoReads' = RemoveAt(logoReads, i)
    /\ UNCHANGED <<images, nextId, activePreviewId, logo, batchVars, exportVars,
                   settings, previewVars>>

\* line 301: the remove-logo button, rendered while logoPreview is set
RemoveLogo ==
    /\ logoPreview # NullString
    /\ logo' = NoFile
    /\ logoPreview' = NullString
    /\ PreviewEffect(images, NoFile, settings, activePreviewId, FALSE)
    /\ UNCHANGED <<images, nextId, activePreviewId, logoReads, batchVars,
                   exportVars, settings>>

\* WatermarkControls.update: onChange({...settings, [key]: value})
ChangeSettings(key, value) ==
    /\ settings' = [settings EXCEPT ![key] = value]
    /\ PreviewEffect(images, logo, [settings EXCEPT ![key] = value],
                     activePreviewId, FALSE)
    /\ UNCHANGED <<images, nextId, activePreviewId, logoVars, batchVars, exportVars>>

\* line 432: a thumbnail is clicked; setting the same id renders nothing
SelectThumbnail(id) ==
    /\ id \in Ids(images)
    /\ id # activePreviewId
    /\ activePreviewId' = id
    /\ PreviewEffect(images, logo, settings, id, FALSE)
    /\ UNCHANGED <<images, nextId, logoVars, batchVars, exportVars, settings>>

\* lines 189-196
removeImage(id) ==
    /\ id \in Ids(images)
    /\ images' = FilterOut(images, id)
    /\ activePreviewId' = IF activePreviewId = id THEN NullId ELSE activePreviewId
    /\ PreviewEffect(FilterOut(images, id), logo, settings,
                     IF activePreviewId = id THEN NullId ELSE activePreviewId,
                     activePreviewId = id)
    /\ UNCHANGED <<nextId, logoVars, batchVars, exportVars, settings>>

\* lines 198-206; the Clear All button is rendered while images.length > 0
resetAll ==
    /\ Len(images) > 0
    /\ images' = <<>>
    /\ logo' = NoFile
    /\ logoPreview' = NullString
    /\ activePreviewId' = NullId
    /\ batchErrorResults' = NoReport
    /\ PreviewEffect(<<>>, NoFile, settings, NullId, TRUE)
    /\ UNCHANGED <<nextId, logoReads, isProcessing, showConfirmModal, passes,
                   exportVars, settings>>

\* lines 114-130: up to the await of Promise.all
executeBatchProcessing ==
    IF NotRunnable(logo, images)
    THEN UNCHANGED appVars
    ELSE /\ showConfirmModal' = FALSE
         /\ batchErrorResults' = NoReport
         /\ isProcessing' = TRUE
         /\ passes' = Append(passes,
                [images |-> images, logo |-> logo, settings |-> settings])
         /\ UNCHANGED <<images, nextId, activePreviewId, logoVars, exportVars,
                        settings, previewVars>>

\* lines 179-187
handleProcessClick ==
    IF NotRunnable(logo, images)
    THEN UNCHANGED appVars
    ELSE IF NeedsConfirmation(images)
    THEN /\ showConfirmModal' = TRUE
         /\ UNCHANGED <<images, nextId, activePreviewId, logoVars, exportVars,
                        settings, previewVars, isProcessing, batchErrorResults,
                        passes>>
    ELSE executeBatchProcessing

\* line 339: the Download All button, when it is not disabled
ClickProcess == ~ProcessButtonDisabled /\ handleProcessClick

\* a process request made while there is no logo or no item
RequestWhileNotRunnable == (logo = NoFile \/ Len(images) = 0) /\ handleProcessClick

\* line 236: Proceed, rendered while showConfirmModal
ClickProceed == showConfirmModal /\ executeBatchProcessing

\* line 230: Cancel, rendered while showConfirmModal
ClickCancel ==
    /\ showConfirmModal
    /\ showConfirmModal' = FALSE
    /\ UNCHANGED <<images, nextId, activePreviewId, logoVars, exportVars, settings,
                   previewVars, isProcessing, batchErrorResults, passes>>

\* lines 41-48: the save button of the controls
handleSaveSettings ==
    /\ storage' = IF storage.denied \/ storage.full THEN storage
                  ELSE [storage EXCEPT !.item = JSONStringify(settings)]
    /\ UNCHANGED <<appVars, compositorVars>>

\* the page is loaded again: every state of the App starts over, the storage stays
Reload ==
    /\ settings' = LoadSettings(storage)
    /\ images' = <<>>
    /\ logo' = NoFile
    /\ logoPreview' = NullString
    /\ isProcessing' = FALSE
    /\ showConfirmModal' = FALSE
    /\ batchErrorResults' = NoReport
    /\ activePreviewId' = NullId
    /\ previewResult' = NullString
    /\ previewError' = NoMessage
    /\ nextId' = 1
    /\ logoReads' = <<>>
    /\ previewTimers' = <<>>
    /\ previewCalls' = <<>>
    /\ passes' = <<>>
    /\ exportTimers' = <<>>
    /\ exported' = <<>>
    /\ processed' = <<>>
    /\ quiet' = 0
    /\ burstCalls' = 0
    /\ burstChanges' = 0
    /\ UNCHANGED <<storage, compositorVars>>

\* line 276: Close, rendered while batchErrorResults is set
CloseReport ==
    /\ batchErrorResults # NoReport
    /\ batchErrorResults' = NoReport
    /\ UNCHANGED <<images, nextId, activePreviewId, logoVars, exportVars, settings,
                   previewVars, isProcessing, showConfirmModal, passes>>

----------------------------------------------------------------------------
(* Asynchronous steps *)

\* lines 122-175: every compositor call of pass p has settled (the settlements
\* write no state of the App, so they are drawn here) and executeBatchProcessing
\* resumes after the await
BatchCompletes(p) ==
    /\ p \in DOMAIN passes
    /\ \E promises \in MappedPromises(passes[p].images, passes[p].logo,
                                      passes[p].settings, 1) :
        /\ AwaitPromiseAll(promises)
        /\ LET proc == [k \in DOMAIN promises |-> promises[k].value]
           IN /\ images' = proc
              /\ isProcessing' = FALSE
              /\ batchErrorResults' = IF Len(Failures(proc)) > 0 THEN Report(proc)
                                      ELSE batchErrorResults
              /\ exportTimers' =
                    [i \in DOMAIN exportTimers |->
                        [exportTimers[i] EXCEPT !.current = FALSE]]
                    \o ScheduleDownloads(proc, passes[p].settings, 1)
              /\ exported' = <<>>
              /\ processed' = proc
              /\ PreviewEffect(proc, logo, settings, activePreviewId, FALSE)
    /\ passes' = RemoveAt(passes, p)
    /\ UNCHANGED <<nextId, activePreviewId, logoVars, settings, showConfirmModal>>

\* lines 157-173: a download timer fires
ExportFires(i) ==
    /\ i \in DOMAIN exportTimers
    /\ exportTimers[i].rem = 0
    /\ exported' =
          IF exportTimers[i].current
          THEN Append(exported,
                 [id |-> exportTimers[i].img.id,
                  href |-> exportTimers[i].img.previewUrl,
                  download |-> DownloadName(exportTimers[i].img.originalFile.name,
                                            exportTimers[i].format)])
          ELSE exported
    /\ exportTimers' = RemoveAt(exportTimers, i)
    /\ UNCHANGED <<images, nextId, activePreviewId, logoVars, settings, previewVars,
                   batchVars, processed>>

\* lines 96-99: the debounce timer fires and generatePreview runs up to its await
PreviewTimerFires(i) ==
    /\ i \in DOMAIN previewTimers
    /\ previewTimers[i].rem = 0
    /\ previewError' = NoMessage
    /\ previewCalls' = Append(previewCalls,
          [imageFile |-> previewTimers[i].imageFile, logo |-> previewTimers[i].logo,
           settings |-> previewTimers[i].settings, stale |-> FALSE])
    /\ previewTimers' = RemoveAt(previewTimers, i)
    /\ burstCalls' = burstCalls + 1
    /\ UNCHANGED <<images, nextId, activePreviewId, logoVars, settings, batchVars,
                   exportVars, previewResult, quiet, burstChanges>>

\* mutant: a failed preview also ends the pass in flight
PreviewSettlesEndsPass(i) ==
    /\ i \in DOMAIN previewCalls
    /\ \E outcome \in applyWatermarkToImage(previewCalls[i].imageFile,
                                            previewCalls[i].logo,
                                            previewCalls[i].settings) :
         IF outcome.ok
         THEN /\ previewResult' = outcome.url
              /\ UNCHANGED <<previewError, isProcessing>>
         ELSE /\ previewError' = outcome.error /\ previewResult' = NullString
              /\ isProcessing' = FALSE
    /\ previewCalls' = RemoveAt(previewCalls, i)
    /\ UNCHANGED <<images, nextId, activePreviewId, logoVars, settings,
                   showConfirmModal, batchErrorResults, passes,
                   exportVars, previewTimers, quiet, burstCalls, burstChanges>>

\* lines 99-105: the compositor call of generatePreview settles
PreviewSettles(i) ==
    /\ i \in DOMAIN previewCalls
    /\ \E outcome \in applyWatermarkToImage(previewCalls[i].imageFile,
                                            previewCalls[i].logo,
                                            previewCalls[i].settings) :
         IF outcome.ok
         THEN previewResult' = outcome.url /\ UNCHANGED previewError
         ELSE previewError' = outcome.error /\ previewResult' = NullString
    /\ previewCalls' = RemoveAt(previewCalls, i)
    /\ UNCHANGED <<images, nextId, activePreviewId, logoVars, settings, batchVars,
                   exportVars, previewTimers, quiet, burstCalls, burstChanges>>

\* time passes: no timer is due, and some timer is waiting
Tick ==
    /\ Len(previewTimers) + Len(exportTimers) > 0
    /\ \A i \in DOMAIN previewTimers : previewTimers[i].rem > 0
    /\ \A i \in DOMAIN exportTimers : exportTimers[i].rem > 0
    /\ previewTimers' = [i \in DOMAIN previewTimers |->
          [previewTimers[i] EXCEPT !.rem = previewTimers[i].rem - Min(Quantum, previewTimers[i].rem)]]
    /\ exportTimers' = [i \in DOMAIN exportTimers |->
          [exportTimers[i] EXCEPT !.rem = exportTimers[i].rem - Min(Quantum, exportTimers[i].rem)]]
    /\ quiet' = Min(quiet + Quantum, DEBOUNCE_MS)
    /\ UNCHANGED <<images, nextId, activePreviewId, logoVars, settings, batchVars,
                   exported, processed, previewResult, previewError, previewCalls,
                   burstCalls, burstChanges>>

----------------------------------------------------------------------------
(* Inputs *)

SmallBatches == {<<PhotoA>>, <<PhotoBad>>, <<PhotoA, PhotoBad>>}
ExportBatches == {<<PhotoA, PhotoBad, PhotoA>>}
LargeBatches == {Repeat(PhotoBad, CONFIRM_THRESHOLD),
                 Repeat(PhotoBad, CONFIRM_THRESHOLD) \o <<PhotoA>>}
OpacityUpdates == {<<"opacity", 50>>, <<"opacity", 80>>}
FormatUpdates == {<<"outputFormat", "image/png">>}

\* file names with two '.', none, a leading one and a trailing one
Named(name) == [PhotoA EXCEPT !.name = name]
NameBatches == {<<Named(<<"a", ".", "b", ".", "p", "n", "g">>)>>,
                <<Named(<<"r", "a", "w">>)>>,
                <<Named(<<".", "h", "i", "d">>)>>,
                <<Named(<<"x", ".">>)>>}
OtherFormatUpdates == {<<"outputFormat", "image/png">>, <<"outputFormat", "image/webp">>}

\* thumbnails and delete buttons are those of the first `reach` items
Reachable(reach) == {images[k].id : k \in DOMAIN images \cap (1..reach)}

\* a user event: one more of at most `budget`, running the handler `name`
UserStep(budget, name) ==
    /\ events < budget /\ events' = events + 1 /\ lastEvent' = name
    /\ UNCHANGED <<storage, compositorVars>>

\* a step of the event loop that no user event starts
AsyncFrame == UNCHANGED <<events, lastEvent, storage, compositorVars>>

NextWith(batches, logos, updates, maxImages, reach, budget) ==
    \/ \E files \in batches :
          /\ UserStep(budget, "handleImagesSelected")
          /\ Len(images) + Len(files) <= maxImages
          /\ handleImagesSelected(files)
    \/ \E file \in logos :
          UserStep(budget, "handleLogoSelected") /\ handleLogoSelected(file)
    \/ UserStep(budget, "removeLogo") /\ RemoveLogo
    \/ \E u \in updates :
          UserStep(budget, "onChange") /\ ChangeSettings(u[1], u[2])
    \/ \E id \in Reachable(reach) :
          UserStep(budget, "setActivePreviewId") /\ SelectThumbnail(id)
    \/ \E id \in Reachable(reach) :
          UserStep(budget, "removeImage") /\ removeImage(id)
    \/ UserStep(budget, "resetAll") /\ resetAll
    \/ UserStep(budget, "handleProcessClick") /\ ClickProcess
    \/ UserStep(budget, "handleProcessClick") /\ RequestWhileNotRunnable
    \/ UserStep(budget, "closeReport") /\ CloseReport
    \/ \E i \in DOMAIN logoReads : AsyncFrame /\ LogoReadSettles(i)
    \/ \E p \in DOMAIN passes : AsyncFrame /\ BatchCompletes(p)
    \/ \E i \in DOMAIN exportTimers : AsyncFrame /\ ExportFires(i)
    \/ \E i \in DOMAIN previewTimers : AsyncFrame /\ PreviewTimerFires(i)
    \/ \E i \in DOMAIN previewCalls : AsyncFrame /\ PreviewSettles(i)
    \/ AsyncFrame /\ Tick

\* the two buttons of the confirmation prompt, rendered while showConfirmModal,
\* which takes a list of more than 10 items
PromptNext(budget) ==
    \/ UserStep(budget, "proceed") /\ ClickProceed
    \/ UserStep(budget, "cancel") /\ ClickCancel

\* the general specification: short item lists, every interleaving (the prompt
\* is never shown for them, so its buttons are left out)
Next == NextWith(SmallBatches, {LogoA}, OpacityUpdates, MaxImages, MaxImages + 1,
                 MaxEvents)
Spec == Init /\ [][Next]_vars

\* a pass over three items with a failing one in the middle, and a failing logo
NextExport == NextWith(ExportBatches, {LogoA, LogoBad}, FormatUpdates,
                       MaxImagesExport, MaxImagesExport + 1, MaxEventsExport)
SpecExport == Init /\ [][NextExport]_vars

\* item lists around the confirmation threshold; the user reaches for the first item
NextLarge ==
    \/ NextWith(LargeBatches, {LogoA}, FormatUpdates, MaxImagesLarge, 1, MaxEventsLarge)
    \/ PromptNext(MaxEventsLarge)
SpecLarge == Init /\ [][NextLarge]_vars

\* items under each kind of file name, exported in each output format (jpeg is the
\* default one)
NextNames == NextWith(NameBatches, {LogoA}, OtherFormatUpdates, MaxImagesNames,
                      MaxImagesNames, MaxEventsNames)
SpecNames == Init /\ [][NextNames]_vars

\* calls of the compositor: decoded photos at and around the limits, logos of
\* both shapes and degenerate ones, settings over the documented ranges
Sized(name, w, h) ==
    [name |-> name, readable |-> TRUE, decodable |-> TRUE, width |-> w, height |-> h]
Pixel == Sized(<<"p">>, 1, 1)
Largest == Sized(<<"g">>, MAX_DIMENSION, MAX_DIMENSION)
TooWide == Sized(<<"w">>, MAX_DIMENSION + 1, 200)
TooTall == Sized(<<"t">>, 400, MAX_DIMENSION + 1)
NoWidth == Sized(<<"z">>, 0, 200)
NoHeight == Sized(<<"y">>, 400, 0)
NoWidthTooTall == Sized(<<"u">>, 0, 20000)
Photos == {PhotoA, Pixel, Largest, TooWide, TooTall, NoWidth, NoHeight, NoWidthTooTall}
LogoTall == Sized(<<"k">>, 20, 40)
LogoFlat == Sized(<<"f">>, 40, 0)
LogoThin == Sized(<<"n">>, 0, 20)
LogoEmpty == Sized(<<"e">>, 0, 0)
Logos == {LogoA, LogoTall, LogoFlat, LogoThin, LogoEmpty}
Positions == {"top-left", "top-right", "bottom-left", "bottom-right", "center", "tiled"}
CommonSettings ==
    {[DefaultSettings EXCEPT !.position = p, !.scale = sc, !.margin = m,
                             !.opacity = lk[1], !.shadow = lk[2], !.brightness = lk[3]] :
        p \in Positions, sc \in {20, 100}, m \in {0, 3, 20},
        lk \in {<<80, FALSE, 100>>, <<0, TRUE, 100>>, <<50, TRUE, 150>>}}
SmallestScale ==
    {[DefaultSettings EXCEPT !.position = p, !.scale = 5, !.saturation = 0] :
        p \in Positions}
Calls == (Photos \X Logos \X CommonSettings)
         \cup ({PhotoA} \X {LogoTall} \X SmallestScale)

NextComposite ==
    \/ \E c \in Calls : Compose(c[1], c[2], c[3])
    \/ ValidateDimensions
    \/ DrawSource
    \/ ConfigureLogo
    \/ TileColumn
    \/ TileRow
    \/ PlaceLogo
    \/ ResetContext
    \/ Encode
    \/ Settle
SpecComposite == Init /\ [][NextComposite]_vars

\* sessions over a storage that holds nothing, something unparseable or a saved
\* record, and that may refuse access or writes
Unparseable == {<<"{", "\"", "opacity", "\"", ":">>, <<"n", "o">>,
                <<"{", "\"", "scale", "\"", ":", "2", "x", "}">>}
SavedBefore == [DefaultSettings EXCEPT !.position = "center", !.scale = 50]
StoredItems == {NullString, JSONStringify(SavedBefore)} \cup Unparseable
SettingsUpdates == {<<"opacity", 0>>, <<"saturation", 200>>, <<"margin", 7>>,
                    <<"position", "tiled">>, <<"outputFormat", "image/webp">>,
                    <<"shadow", TRUE>>}
InitSettings ==
    \E item \in StoredItems : \E denied, full \in BOOLEAN :
        SessionStarts([item |-> item, denied |-> denied, full |-> full])
NextSettings ==
    \/ \E u \in SettingsUpdates :
          UserStep(MaxEventsSettings, "onChange") /\ ChangeSettings(u[1], u[2])
    \/ /\ events < MaxEventsSettings
       /\ events' = events + 1
       /\ lastEvent' = IF storage.denied \/ storage.full THEN "saveFailed" ELSE "saved"
       /\ handleSaveSettings
    \/ /\ events < MaxEventsSettings
       /\ events' = events + 1
       /\ lastEvent' = "reload"
       /\ Reload
SpecSettings == InitSettings /\ [][NextSettings]_vars

\* single photos added one by one, over longer runs of user events
NextActive == NextWith({<<PhotoA>>}, {LogoA}, {<<"opacity", 50>>}, MaxImagesActive,
                       MaxImagesActive, MaxEventsActive)
SpecActive == Init /\ [][NextActive]_vars

\* the general specification with what the event loop guarantees a started pass:
\* its compositor calls settle and the continuation after the await is run
NextFair == NextWith(SmallBatches, {LogoA}, OpacityUpdates, MaxImagesFair,
                     MaxImagesFair + 1, MaxEventsFair)
SpecFair == /\ Init /\ [][NextFair]_vars
            /\ WF_vars(/\ \E p \in DOMAIN passes : BatchCompletes(p)
                       /\ UNCHANGED <<events, lastEvent, storage, compositorVars>>)

----------------------------------------------------------------------------
(* Properties *)

PassStarts == Len(passes') > Len(passes)
LivePreview ==
    activePreviewId # NullId /\ logo # NoFile /\ FindIndex(images, activePreviewId) # 0
Settled(img) == img.status \in {"done", "error"}

\* C1: a result (success or failure) of a preview request that a later change of
\* settings, active item, logo or item list has superseded is never written to
\* previewResult or previewError.
C1_OnlyLatestPreviewShown ==
    [][\A i \in DOMAIN previewCalls : PreviewSettles(i) => ~previewCalls[i].stale]_vars

\* C2: when a pass ends, the item list is the list the pass started from, each item
\* carrying the settlement of its own compositor call and nothing else: status
\* error with that call's message when it failed, status done with that call's
\* output when it succeeded, whatever happened to the other items.
C2_BatchIsolation ==
    [][\A p \in DOMAIN passes : BatchCompletes(p) =>
          /\ Len(images') = Len(passes[p].images)
          /\ \A k \in DOMAIN passes[p].images :
                LET before == passes[p].images[k]
                    after == images'[k]
                IN /\ after.id = before.id
                   /\ after.originalFile = before.originalFile
                   /\ \E o \in applyWatermarkToImage(before.originalFile,
                                                     passes[p].logo, passes[p].settings) :
                         IF o.ok
                         THEN /\ after.status = "done"
                              /\ after.previewUrl = o.url
                              /\ after.previewUrl # NullString
                              /\ after.errorMessage = NoMessage
                         ELSE /\ after.status = "error"
                              /\ after.errorMessage = o.error
                              /\ after.errorMessage # NoMessage]_vars

\* a pass has ended with one item done and another in error
C2_Witness ==
    /\ images = processed
    /\ \E k, j \in DOMAIN images :
          /\ images[k].status = "done" /\ images[k].previewUrl # NullString
          /\ images[j].status = "error" /\ images[j].errorMessage.kind = "Decode"

C4_StatusPath ==
    [][\A k \in DOMAIN images : \A j \in DOMAIN images' :
          (images[k].id = images'[j].id /\ images[k].status = "pending")
              => images'[j].status \in {"pending", "processing"}]_vars

\* C5: the end of a pass changes status, output and message of items only: the
\* items in the list are the same before and after.
C5_PassKeepsItemList ==
    [][\A p \in DOMAIN passes : BatchCompletes(p) => Ids(images') = Ids(images)]_vars

\* C6: when a pass ends there is a report exactly if an item of the pass failed;
\* the report counts the items of the pass, the successes as total minus failures,
\* and lists the failed items as {id, name, error} in the order of the list.
ErrorItems(imgs) == SelectSeq(imgs, LAMBDA img : img.status = "error")
C6_ReportIffFailure ==
    [][\A p \in DOMAIN passes : BatchCompletes(p) =>
          LET failed == ErrorItems(images')
          IN IF Len(failed) = 0
             THEN batchErrorResults' = NoReport
             ELSE /\ batchErrorResults'.total = Len(passes[p].images)
                  /\ batchErrorResults'.success =
                        batchErrorResults'.total - Len(failed)
                  /\ Len(batchErrorResults'.failures) = Len(failed)
                  /\ \A i \in DOMAIN failed :
                        batchErrorResults'.failures[i] =
                            [id |-> failed[i].id,
                             name |-> failed[i].originalFile.name,
                             error |-> failed[i].errorMessage]]_vars

\* a pass has ended with two failures and the report lists them
C6_Witness ==
    /\ ~isProcessing
    /\ passes = <<>>
    /\ images = processed
    /\ batchErrorResults # NoReport
    /\ batchErrorResults.total = 2
    /\ batchErrorResults.success = 0
    /\ batchErrorResults.failures[1].id < batchErrorResults.failures[2].id
    /\ batchErrorResults.failures[1].error.kind = "Encode"

\* C7: a pass over more than 10 items starts only by Proceed while the prompt is
\* shown; a click on the process button with 1 to 10 items starts the pass at once
\* and leaves no prompt, with more it only shows the prompt; Cancel starts no pass
\* and changes nothing but the prompt.
C7_ConfirmationGate ==
    [][/\ (PassStarts /\ Len(images) > 10) =>
              (showConfirmModal /\ lastEvent' = "proceed" /\ events' = events + 1)
       /\ (events' = events + 1 /\ lastEvent' = "handleProcessClick"
              /\ logo # NoFile /\ Len(images) >= 1) =>
              IF Len(images) <= 10
              THEN /\ PassStarts
                   /\ passes'[Len(passes')].images = images
                   /\ ~showConfirmModal'
              ELSE ~PassStarts /\ showConfirmModal'
       /\ (events' = events + 1 /\ lastEvent' = "cancel") =>
              /\ ~PassStarts
              /\ ~showConfirmModal'
              /\ UNCHANGED <<images, logo, logoPreview, settings, activePreviewId,
                             previewResult, previewError, batchErrorResults,
                             isProcessing, exportTimers, previewTimers,
                             previewCalls>>]_vars

\* the prompt was accepted and a pass over 11 items is running
C7_Witness ==
    /\ lastEvent = "proceed"
    /\ isProcessing
    /\ ~showConfirmModal
    /\ Len(passes) = 1
    /\ Len(passes[1].images) = 11

\* C8: a process request or a Proceed made while there is no logo or no item
\* changes nothing: no pass starts (no compositor call), the items, isProcessing,
\* the report, the prompt and the scheduled downloads stay as they are.
C8_NotRunnableIsNoOp ==
    [][(/\ events' = events + 1
        /\ lastEvent' \in {"handleProcessClick", "proceed"}
        /\ (logo = NoFile \/ Len(images) = 0)) =>
            /\ ~PassStarts
            /\ UNCHANGED appVars]_vars

\* Proceed was clicked in a prompt left open after the logo was removed
C8_Witness ==
    /\ lastEvent = "proceed"
    /\ showConfirmModal
    /\ logo = NoFile
    /\ Len(images) > 10
    /\ ~isProcessing
    /\ passes = <<>>

\* C9: a started pass eventually ends, whatever the user does meanwhile, and when
\* it ends isProcessing is false and the item list holds every item of the pass,
\* each one done or error.
C9_PassRunsToCompletion ==
    /\ (passes # <<>>) ~> (passes = <<>> /\ ~isProcessing)
    /\ [][\A p \in DOMAIN passes : BatchCompletes(p) =>
            /\ ~isProcessing'
            /\ Ids(passes[p].images) = Ids(images')
            /\ \A k \in DOMAIN images' : Settled(images'[k])]_vars

\* a pass has ended although the settings were changed and an item was deleted
\* after it had started
C9_Witness ==
    /\ ~isProcessing
    /\ passes = <<>>
    /\ images = processed
    /\ Len(images) = 2
    /\ \A k \in DOMAIN images : Settled(images[k])
    /\ lastEvent = "removeImage"
    /\ events = 4

\* C10: the downloads delivered since a pass ended, followed by those still
\* scheduled for it, are the done items of the pass, each once, in list order;
\* the scheduled ones are due at different times, earlier items first.
DoneIds(proc) ==
    LET done == SelectSeq(proc, LAMBDA img : img.status = "done")
    IN [k \in DOMAIN done |-> done[k].id]
CurrentTimers == SelectSeq(exportTimers, LAMBDA t : t.current)
C10_PacedExports ==
    /\ [k \in DOMAIN exported |-> exported[k].id]
          \o [k \in DOMAIN CurrentTimers |-> CurrentTimers[k].img.id]
       = DoneIds(processed)
    /\ \A i, j \in DOMAIN CurrentTimers :
          i < j => CurrentTimers[i].rem < CurrentTimers[j].rem
    /\ \A k \in DOMAIN exported :
          \E j \in DOMAIN processed :
             /\ processed[j].id = exported[k].id
             /\ processed[j].status = "done"
             /\ exported[k].href = processed[j].previewUrl

\* both done items of a pass with a failed item between them have been delivered
C10_Witness ==
    /\ Len(processed) = 3
    /\ processed[2].status = "error"
    /\ Len(exported) = 2
    /\ exported[1].id = processed[1].id
    /\ exported[2].id = processed[3].id
    /\ CurrentTimers = <<>>

----------------------------------------------------------------------------
(* The export file name *)

\* the output format of the compositor call that made a download's blob
EncodedFormat(download) == download.href[4].outputFormat
\* the name of the file a download was made from
OriginalName(download) ==
    processed[FindIndex(processed, download.id)].originalFile.name
\* n up to its last '.', n itself when it has none
BaseOfName(n) ==
    IF \E i \in DOMAIN n : n[i] = "."
    THEN SubSeq(n, 1, LastIndexOf(n, "."))
    ELSE n
ExtOfFormat(f) ==
    CASE f = "image/jpeg" -> <<"j", "p", "g">>
      [] f = "image/png" -> <<"p", "n", "g">>
      [] f = "image/webp" -> <<"w", "e", "b", "p">>

\* C11 as stated: every delivered download is named "watermarked-" + base(n) + "."
\* + ext(f), base(n) being n with everything from its last '.' removed (n itself
\* when n has no '.') and f the format the item was encoded with in the pass.
C11_ExportName ==
    \A k \in DOMAIN exported :
        exported[k].download =
            <<"watermarked-">> \o BaseOfName(OriginalName(exported[k])) \o <<".">>
                \o ExtOfFormat(EncodedFormat(exported[k]))

\* C11 amended: as above, but base(n) is n itself also when removing everything
\* from the last '.' would leave nothing (the only '.' of n is its first character).
C11_ExportNameKeepsDotFiles ==
    \A k \in DOMAIN exported :
        LET n == OriginalName(exported[k])
            base == IF BaseOfName(n) = <<>> THEN n ELSE BaseOfName(n)
        IN exported[k].download =
              <<"watermarked-">> \o base \o <<".">>
                  \o ExtOfFormat(EncodedFormat(exported[k]))

\* a file with two dots in its name was exported as webp after the format was
\* changed
C11_Witness ==
    /\ Len(exported) = 1
    /\ OriginalName(exported[1]) = <<"a", ".", "b", ".", "p", "n", "g">>
    /\ exported[1].download = <<"watermarked-", "a", ".", "b", ".", "w", "e", "b", "p">>

----------------------------------------------------------------------------
(* The compositor *)

Validates == pc = "validate" /\ pc' # "validate"
Untouched == canvas' = NoCanvas /\ draws' = <<>> /\ ctx' = InitialContext

\* C12 as stated: validation rejects, before the canvas is sized or anything is
\* drawn, every source with width or height 0 with InvalidDimensions and every
\* source with width or height above 16384 with ImageTooLarge, the message holding
\* the width and the height; a source with both in 1..16384 passes validation.
C12_DimensionValidation ==
    [][Validates =>
        LET img == frame.img
        IN /\ (img.width = 0 \/ img.height = 0) =>
                 /\ pc' = "thrown" /\ ret'.error.kind = "InvalidDimensions"
                 /\ Untouched
           /\ (img.width > 16384 \/ img.height > 16384) =>
                 /\ pc' = "thrown" /\ ret'.error.kind = "ImageTooLarge"
                 /\ ret'.error.name.width = img.width
                 /\ ret'.error.name.height = img.height
                 /\ Untouched
           /\ (img.width \in 1..16384 /\ img.height \in 1..16384) =>
                 ret'.error.kind \notin {"InvalidDimensions", "ImageTooLarge"}]_vars

\* C12 amended: as above, but a source with a dimension of 0 is rejected with
\* InvalidDimensions when neither dimension is above 16384; when one is, the
\* size check, which comes first, rejects it with ImageTooLarge.
C12_DimensionValidationInOrder ==
    [][Validates =>
        LET img == frame.img
        IN /\ ((img.width = 0 \/ img.height = 0)
                  /\ img.width <= 16384 /\ img.height <= 16384) =>
                 /\ pc' = "thrown" /\ ret'.error.kind = "InvalidDimensions"
                 /\ Untouched
           /\ (img.width > 16384 \/ img.height > 16384) =>
                 /\ pc' = "thrown" /\ ret'.error.kind = "ImageTooLarge"
                 /\ ret'.error.name.width = img.width
                 /\ ret'.error.name.height = img.height
                 /\ Untouched
           /\ (img.width \in 1..16384 /\ img.height \in 1..16384) =>
                 ret'.error.kind \notin {"InvalidDimensions", "ImageTooLarge"}]_vars

\* a photo of width 0 and height 20000 was rejected as too large, with no canvas
C12_Witness ==
    /\ pc = "thrown"
    /\ frame.img.width = 0
    /\ frame.img.height = 20000
    /\ ret.error.kind = "ImageTooLarge"
    /\ canvas = NoCanvas
    /\ draws = <<>>

LogoDraws == SelectSeq(draws, LAMBDA d : d.layer = "logo")
Drawn == pc \in {"reset", "encode", "returned"}

\* C13: for every position but tiled, the logo is drawn exactly once, with width
\* dw = W*scale/100 and height dh = dw*(logoHeight/logoWidth), at (mx, my) for
\* top-left, (W-dw-mx, my) for top-right, (mx, H-dh-my) for bottom-left,
\* (W-dw-mx, H-dh-my) for bottom-right and ((W-dw)/2, (H-dh)/2) for center, where
\* mx = W*margin/100 and my = H*margin/100; the center does not depend on margin.
C13_SinglePlacement ==
    (Drawn /\ frame.settings.position # "tiled") =>
        LET W == Num(frame.img.width)
            H == Num(frame.img.height)
            st == frame.settings
            dw == Div(Mul(W, Num(st.scale)), Num(100))
            dh == Mul(dw, Div(Num(frame.logo.height), Num(frame.logo.width)))
            mx == Div(Mul(W, Num(st.margin)), Num(100))
            my == Div(Mul(H, Num(st.margin)), Num(100))
            right == Sub(Sub(W, dw), mx)
            bottom == Sub(Sub(H, dh), my)
        IN /\ Len(LogoDraws) = 1
           /\ LogoDraws[1].w = dw
           /\ LogoDraws[1].h = dh
           /\ <<LogoDraws[1].x, LogoDraws[1].y>> =
                 CASE st.position = "top-left" -> <<mx, my>>
                   [] st.position = "top-right" -> <<right, my>>
                   [] st.position = "bottom-left" -> <<mx, bottom>>
                   [] st.position = "bottom-right" -> <<right, bottom>>
                   [] st.position = "center" ->
                         <<Div(Sub(W, dw), Num(2)), Div(Sub(H, dh), Num(2))>>

\* a 20x40 logo was drawn 80x160 at (240, 40), the top right of a 400x200 photo
\* under scale 20 and margin 20
C13_Witness ==
    /\ pc = "returned"
    /\ frame.settings.position = "top-right"
    /\ frame.settings.margin = 20
    /\ Len(LogoDraws) = 1
    /\ LogoDraws[1].w = Num(80) /\ LogoDraws[1].h = Num(160)
    /\ LogoDraws[1].x = Num(240) /\ LogoDraws[1].y = Num(40)

\* the grid of a tiled call: (i*dw*1.5, j*dw*1.5*aspectRatio) inside the photo
TileGrid ==
    LET dw == Div(Mul(Num(frame.img.width), Num(frame.settings.scale)), Num(100))
        aspect == Div(Num(frame.logo.height), Num(frame.logo.width))
        X(i) == Mul(Num(i), Mul(dw, Ratio(3, 2)))
        Y(j) == Mul(Num(j), Mul(Mul(dw, Ratio(3, 2)), aspect))
        columns == {i \in 0..MaxDraws : Less(X(i), Num(frame.img.width))}
        rows == {j \in 0..MaxDraws : Less(Y(j), Num(frame.img.height))}
    IN {<<X(i), Y(j)>> : i \in columns, j \in rows}

\* C14: for position tiled (and a logo that has a width, so that its aspect ratio
\* is a number), every tile is drawn at a point (i*dw*1.5, j*dw*1.5*aspectRatio)
\* with i, j >= 0 that lies inside the photo, with size dw x dh; when the drawing
\* is over, each such point, (0,0) included, has been drawn at exactly once; the
\* margin plays no part in it.
C14_TiledGrid ==
    (frame.settings.position = "tiled" /\ frame.logo.width > 0) =>
        LET dw == Div(Mul(Num(frame.img.width), Num(frame.settings.scale)), Num(100))
            dh == Mul(dw, Div(Num(frame.logo.height), Num(frame.logo.width)))
            at == {<<LogoDraws[k].x, LogoDraws[k].y>> : k \in DOMAIN LogoDraws}
        IN /\ at \subseteq TileGrid
           /\ \A k \in DOMAIN LogoDraws : LogoDraws[k].w = dw /\ LogoDraws[k].h = dh
           /\ Drawn => /\ at = TileGrid
                       /\ <<Zero, Zero>> \in at
                       /\ Len(LogoDraws) = Cardinality(TileGrid)

\* a 40x20 logo was tiled 16 times over a 400x200 photo under scale 20 and
\* margin 20, the last tile at (360, 180)
C14_Witness ==
    /\ pc = "returned"
    /\ frame.settings.position = "tiled"
    /\ frame.settings.margin = 20
    /\ frame.img = PhotoA /\ frame.logo = LogoA
    /\ Len(LogoDraws) = 16
    /\ LogoDraws[16].x = Num(360) /\ LogoDraws[16].y = Num(180)
    /\ LogoDraws[2].x = Zero /\ LogoDraws[2].y = Num(60)

ShadowOff(state) ==
    /\ state.shadowColor = "transparent"
    /\ state.shadowBlur = Zero
    /\ state.shadowOffsetX = Zero
    /\ state.shadowOffsetY = Zero

\* C15: the photo is drawn first, with alpha 1, no shadow, and the combined
\* brightness/contrast/saturation filter exactly if one of the three is not 100;
\* every draw of the logo comes after it, with no filter, alpha opacity/100, and
\* the shadow (black at 60%, blur 1% and offsets 0.3% of the larger side of the
\* photo) exactly if shadow is enabled; after the last draw of the logo, before
\* the encoding, alpha is 1 and the shadow is fully off.
C15_StatePerLayer ==
    LET st == frame.settings
        side == Num(Max(frame.img.width, frame.img.height))
    IN /\ \A k \in DOMAIN draws :
             IF k = 1
             THEN /\ draws[k].layer = "source"
                  /\ draws[k].globalAlpha = Num(1)
                  /\ ShadowOff(draws[k])
                  /\ IF st.brightness = 100 /\ st.contrast = 100 /\ st.saturation = 100
                     THEN draws[k].filter = "none"
                     ELSE draws[k].filter = <<"brightness", st.brightness, "contrast",
                                              st.contrast, "saturate", st.saturation>>
             ELSE /\ draws[k].layer = "logo"
                  /\ draws[k].filter = "none"
                  /\ draws[k].globalAlpha = Ratio(st.opacity, 100)
                  /\ IF st.shadow
                     THEN /\ draws[k].shadowColor = "rgba(0, 0, 0, 0.6)"
                          /\ draws[k].shadowBlur = Div(side, Num(100))
                          /\ draws[k].shadowOffsetX = Div(Mul(side, Num(3)), Num(1000))
                          /\ draws[k].shadowOffsetY = Div(Mul(side, Num(3)), Num(1000))
                     ELSE ShadowOff(draws[k])
       /\ pc \in {"reset", "encode", "returned"} => Len(draws) >= 2
       /\ pc \in {"encode", "returned"} =>
             /\ ctx.globalAlpha = Num(1)
             /\ ShadowOff(ctx)
             /\ ctx.filter = "none"

\* a photo brightened to 150% was drawn under the filter, the logo over it at
\* alpha 1/2 with a shadow of blur 4, and the state is clean before the encoding
C15_Witness ==
    /\ pc = "encode"
    /\ frame.img = PhotoA
    /\ frame.settings.brightness = 150
    /\ Len(draws) = 2
    /\ draws[1].filter # "none" /\ draws[1].globalAlpha = Num(1) /\ ShadowOff(draws[1])
    /\ draws[2].filter = "none" /\ draws[2].globalAlpha = Ratio(1, 2)
    /\ draws[2].shadowBlur = Num(4)
    /\ ctx.globalAlpha = Num(1) /\ ShadowOff(ctx)

\* C18: a call on a valid photo terminates for every decoded logo, one of width or
\* height 0 included, and every settings record in the ranges: every pass through
\* the body of the inner tiling loop moves y on, and every pass through the outer
\* one moves x on (a pass that leaves the loop variable where it was is repeated
\* for ever, the loop body reading nothing else).
C18_TilingAdvances ==
    [][/\ (pc = "tileY" /\ pc' = "tileY") => frame'.y # frame.y
       /\ (pc = "tileY" /\ pc' = "tileX") => frame'.x # frame.x]_vars

----------------------------------------------------------------------------
(* The persistence of the settings *)

DocumentedDefaults ==
    [opacity |-> 80, scale |-> 20, position |-> "bottom-right", margin |-> 3,
     outputFormat |-> "image/jpeg", shadow |-> FALSE, brightness |-> 100,
     contrast |-> 100, saturation |-> 100]
NothingToLoad ==
    storage.item = NullString \/ storage.item \in Unparseable \/ storage.denied

\* C16: a session that starts right after a save that went through has the saved
\* record, field by field; a session that starts with nothing stored, with an
\* unparseable item or with no access to the storage has the documented default
\* record; a save that fails changes neither the settings in memory nor anything
\* else.
C16_SettingsRoundTrip ==
    /\ [][(lastEvent = "saved" /\ lastEvent' = "reload") =>
             /\ DOMAIN settings' = DOMAIN settings
             /\ \A key \in DOMAIN settings : settings'[key] = settings[key]]_vars
    /\ [][(lastEvent' = "reload" /\ events' # events /\ NothingToLoad) =>
             settings' = DocumentedDefaults]_vars
    /\ [](events = 0 /\ NothingToLoad => settings = DocumentedDefaults)
    /\ [][(lastEvent' = "saveFailed" /\ events' # events) =>
             UNCHANGED <<appVars, storage>>]_vars

\* a record changed in a number, a string and a boolean field was saved and is the
\* record of the next session
C16_Witness ==
    /\ lastEvent = "reload"
    /\ events = 4
    /\ settings.saturation = 200
    /\ settings.position = "tiled"
    /\ settings.opacity = 80
    /\ storage.item = JSONStringify(settings)
    /\ storage.item # JSONStringify(SavedBefore)

----------------------------------------------------------------------------
(* The scope of a failed preview *)

PreviewFails ==
    /\ Len(previewCalls') < Len(previewCalls)
    /\ previewError' # NoMessage
    /\ previewResult' = NullString

\* C17: a preview call that fails writes the preview error and the preview result
\* and nothing else: the items (ids, statuses, outputs, messages), the report,
\* isProcessing, the logo and the settings are as before, and so are the prompt,
\* the passes in flight and the scheduled downloads.
C17_PreviewFailureIsLocal ==
    [][PreviewFails =>
          /\ previewError'.kind \in {"ReadSource", "ReadLogo", "Decode", "ImageTooLarge",
                                     "InvalidDimensions", "Encode"}
          /\ UNCHANGED <<images, batchErrorResults, isProcessing, logo, logoPreview,
                         settings, activePreviewId, showConfirmModal, passes,
                         exportTimers, exported, processed>>]_vars

\* the preview of an undecodable photo has failed while a pass was in flight
C17_Witness ==
    /\ previewError.kind = "Decode"
    /\ previewResult = NullString
    /\ previewCalls = <<>>
    /\ isProcessing
    /\ Len(passes) = 1
    /\ \A k \in DOMAIN images : images[k].status = "pending"

----------------------------------------------------------------------------
(* The items and the active preview *)

\* C19: in every state an item has an output (a non-empty previewUrl) exactly if
\* its status is done, and an error message exactly if its status is error; so an
\* item that was done and fails in a later pass has lost its output.
C19_OutputIffDone ==
    \A k \in DOMAIN images :
        /\ images[k].previewUrl # NullString <=> images[k].status = "done"
        /\ images[k].errorMessage # NoMessage <=> images[k].status = "error"

\* C20: activePreviewId is null or the id of an item of the list.
C20_ActiveItemExists ==
    activePreviewId = NullId \/ activePreviewId \in Ids(images)

----------------------------------------------------------------------------
(* The logo and its display preview *)

\* C21: when no read of handleLogoSelected is pending, a logo preview is shown
\* only if a logo is set, and it is then the data URL of that logo.
C21_LogoPreviewAgrees ==
    (logoReads = <<>> /\ logoPreview # NullString) =>
        (logo # NoFile /\ logoPreview = DataUrl(logo))

----------------------------------------------------------------------------
(* The passes in flight *)

\* C22: at most one pass is in flight: a pass starts only when none is in flight
\* and isProcessing is false, whatever process requests, confirmations and
\* cancellations are made; while one is in flight isProcessing is true and the
\* prompt, the other way into a pass, is not shown.
C22_OnePassInFlight ==
    /\ [](Len(passes) <= 1)
    /\ [](passes # <<>> => isProcessing /\ ~showConfirmModal)
    /\ [][PassStarts => passes = <<>> /\ ~isProcessing]_vars

\* a pass over 10 items has ended and a second click on the process button has
\* started the next one
C22_Witness ==
    /\ lastEvent = "handleProcessClick"
    /\ Len(passes) = 1
    /\ isProcessing
    /\ Len(processed) = 10
    /\ passes[1].images = processed

====
